---- MODULE Spec2Model ----
(***************************************************************************)
(* LiteReviewer (src/lite_reviewer): the unified-diff hunk indexer and the *)
(* comment-span resolver, as a state machine over the three pipeline       *)
(* stages extract_pr_diffs -> generate_reviews -> post_from_reviews.       *)
(*                                                                         *)
(* Text is modelled at the level the code inspects it.  A patch is the     *)
(* list patch.splitlines() (<<>> for an empty or absent patch).  A line is *)
(* a sequence of one-character strings; the two characters "@@" that       *)
(* startswith("@@") tests are one leading element, and a header line is    *)
(* the token list of its text ("@@", "-", digits, ",", digits, "+", ...).  *)
(* JSON null / Python None is NoneHunk for a hunk and None (-1) for an     *)
(* integer field: every integer the parser produces is >= 0.               *)
(***************************************************************************)
EXTENDS Integers, Sequences, FiniteSets, TLC

None == -1
NoneHunk == [none |-> TRUE]
NoneSpan == [none |-> TRUE]

(***************************************************************************)
(* str(int), int(str) and \d+ on the numbers of the model (one digit).     *)
(***************************************************************************)
Digits == <<"0", "1", "2", "3", "4", "5", "6", "7", "8", "9">>
Str(n) == Digits[n + 1]
IsNum(s) == \E k \in 1..Len(Digits) : Digits[k] = s
ToInt(s) == CHOOSE n \in 0..(Len(Digits) - 1) : Digits[n + 1] = s

(***************************************************************************)
(* extractor.py                                                            *)
(***************************************************************************)
StartsWithAt(line) == Len(line) > 0 /\ line[1] = "@@"

\* A chunk is the list cur that "\n".join(cur) turns into the block's text.
\* The text is the empty string exactly when cur is one empty line.
IsEmptyText(chunk) == chunk = << <<>> >>

\* ("\n".join(cur)).splitlines(): a final empty line does not survive.
splitlines(chunk) ==
    IF Len(chunk) > 0 /\ chunk[Len(chunk)] = <<>>
    THEN SubSeq(chunk, 1, Len(chunk) - 1)
    ELSE chunk

RECURSIVE SplitFrom(_, _, _, _)
SplitFrom(lines, k, cur, chunks) ==
    IF k > Len(lines)
    THEN IF cur # <<>> THEN Append(chunks, cur) ELSE chunks
    ELSE IF StartsWithAt(lines[k]) /\ cur # <<>>
         THEN SplitFrom(lines, k + 1, <<lines[k]>>, Append(chunks, cur))
         ELSE SplitFrom(lines, k + 1, Append(cur, lines[k]), chunks)

split_hunks(patch) ==
    IF patch = <<>> THEN <<>> ELSE SplitFrom(patch, 1, <<>>, <<>>)

\* HUNK_RE.match on the header's tokens: <<>> when there is no match, else
\* the four groups, a group that did not take part being "".
HUNK_RE(t) ==
    LET n    == Len(t)
        ok1  == n >= 3 /\ t[1] = "@@" /\ t[2] = "-" /\ IsNum(t[3])
        has2 == n >= 5 /\ t[4] = "," /\ IsNum(t[5])
        p    == IF has2 THEN 6 ELSE 4
        ok3  == n >= p + 1 /\ t[p] = "+" /\ IsNum(t[p + 1])
        has4 == n >= p + 3 /\ t[p + 2] = "," /\ IsNum(t[p + 3])
        q    == IF has4 THEN p + 4 ELSE p + 2
        ok5  == n >= q /\ t[q] = "@@"
    IN  IF ok1 /\ ok3 /\ ok5
        THEN << t[3], IF has2 THEN t[5] ELSE "",
                t[p + 1], IF has4 THEN t[p + 3] ELSE "" >>
        ELSE <<>>

\* ParseBody with a '-' line advancing the new counter as well as the old.
RECURSIVE ParseBody_RemovedAdvancesNew(_, _, _, _, _)
ParseBody_RemovedAdvancesNew(lines, k, old_no, new_no, out_lines) ==
    IF k > Len(lines) THEN out_lines
    ELSE LET raw == lines[k] IN
         IF raw = <<>>
         THEN ParseBody_RemovedAdvancesNew(lines, k + 1, old_no + 1, new_no + 1,
                  Append(out_lines, [tag |-> " ", text |-> <<>>,
                                     old |-> old_no, new |-> new_no]))
         ELSE LET tag  == raw[1]
                  text == IF tag \in {"+", "-", " "} THEN Tail(raw) ELSE raw
              IN  IF tag = "+"
                  THEN ParseBody_RemovedAdvancesNew(lines, k + 1, old_no, new_no + 1,
                           Append(out_lines, [tag |-> "+", text |-> text,
                                              old |-> None, new |-> new_no]))
                  ELSE IF tag = "-"
                  THEN ParseBody_RemovedAdvancesNew(lines, k + 1, old_no + 1, new_no + 1,
                           Append(out_lines, [tag |-> "-", text |-> text,
                                              old |-> old_no, new |-> None]))
                  ELSE ParseBody_RemovedAdvancesNew(lines, k + 1, old_no + 1, new_no + 1,
                           Append(out_lines, [tag |-> " ", text |-> text,
                                              old |-> old_no, new |-> new_no]))

\* The loop over lines[1:] with its two counters.
RECURSIVE ParseBody(_, _, _, _, _)
ParseBody(lines, k, old_no, new_no, out_lines) ==
    IF k > Len(lines) THEN out_lines
    ELSE LET raw == lines[k] IN
         IF raw = <<>>
         THEN ParseBody(lines, k + 1, old_no + 1, new_no + 1,
                  Append(out_lines, [tag |-> " ", text |-> <<>>,
                                     old |-> old_no, new |-> new_no]))
         ELSE LET tag  == raw[1]
                  text == IF tag \in {"+", "-", " "} THEN Tail(raw) ELSE raw
              IN  IF tag = "+"
                  THEN ParseBody(lines, k + 1, old_no, new_no + 1,
                           Append(out_lines, [tag |-> "+", text |-> text,
                                              old |-> None, new |-> new_no]))
                  ELSE IF tag = "-"
                  THEN ParseBody(lines, k + 1, old_no + 1, new_no,
                           Append(out_lines, [tag |-> "-", text |-> text,
                                              old |-> old_no, new |-> None]))
                  ELSE ParseBody(lines, k + 1, old_no + 1, new_no + 1,
                           Append(out_lines, [tag |-> " ", text |-> text,
                                              old |-> old_no, new |-> new_no]))

\* parse_diff_hunk taking the default for a length that reads 0 as well as
\* for a length that is missing.
parse_diff_hunk_ZeroDefaults(diff_text) ==
    IF IsEmptyText(diff_text) THEN NoneHunk
    ELSE LET lines == splitlines(diff_text)
             hdrs  == {k \in 1..Len(lines) : StartsWithAt(lines[k])}
         IN  IF hdrs = {} THEN NoneHunk
             ELSE LET header_line == lines[CHOOSE k \in hdrs : \A j \in hdrs : k <= j]
                      m == HUNK_RE(header_line)
                  IN  IF m = <<>> THEN NoneHunk
                      ELSE LET old_start == ToInt(m[1])
                               old_len   == ToInt(IF m[2] \notin {"", "0"} THEN m[2] ELSE "1")
                               new_start == ToInt(m[3])
                               new_len   == ToInt(IF m[4] \notin {"", "0"} THEN m[4] ELSE "1")
                           IN  [header    |-> header_line,
                                old_start |-> old_start,
                                old_len   |-> old_len,
                                new_start |-> new_start,
                                new_len   |-> new_len,
                                lines     |-> ParseBody(lines, 2, old_start, new_start, <<>>)]

parse_diff_hunk(diff_text) ==
    IF IsEmptyText(diff_text) THEN NoneHunk
    ELSE LET lines == splitlines(diff_text)
             hdrs  == {k \in 1..Len(lines) : StartsWithAt(lines[k])}
         IN  IF hdrs = {} THEN NoneHunk
             ELSE LET header_line == lines[CHOOSE k \in hdrs : \A j \in hdrs : k <= j]
                      m == HUNK_RE(header_line)
                  IN  IF m = <<>> THEN NoneHunk
                      ELSE LET old_start == ToInt(m[1])
                               old_len   == ToInt(IF m[2] # "" THEN m[2] ELSE "1")
                               new_start == ToInt(m[3])
                               new_len   == ToInt(IF m[4] # "" THEN m[4] ELSE "1")
                           IN  [header    |-> header_line,
                                old_start |-> old_start,
                                old_len   |-> old_len,
                                new_start |-> new_start,
                                new_len   |-> new_len,
                                lines     |-> ParseBody(lines, 2, old_start, new_start, <<>>)]

\* A Python dict with integer keys; json.dumps writes the keys as strings.
EmptyDict == [keys |-> "int", map |-> [x \in {} |-> 0]]
DictSet(d, k, v) ==
    [keys |-> d.keys,
     map  |-> [x \in (DOMAIN d.map) \cup {k} |-> IF x = k THEN v ELSE d.map[x]]]
DictGetInt(d, k) == IF d.keys = "int" /\ k \in DOMAIN d.map THEN d.map[k] ELSE None
DictGetStr(d, s) == IF d.keys = "str" /\ s \in DOMAIN d.map THEN d.map[s] ELSE None
JsonDict(d) ==
    IF d.keys = "str" THEN d
    ELSE [keys |-> "str",
          map  |-> [s \in {Str(n) : n \in DOMAIN d.map} |-> d.map[ToInt(s)]]]

\* TableLines counting only the lines that carry a new line number: a '-'
\* line takes no position.
RECURSIVE TableLines_SkipsRemoved(_, _, _, _)
TableLines_SkipsRemoved(lines, k, pos, pos_table) ==
    IF k > Len(lines) THEN <<pos, pos_table>>
    ELSE LET ln == lines[k] IN
         IF ln.tag \in {"+", " "} /\ ln.new # None
         THEN TableLines_SkipsRemoved(lines, k + 1, pos + 1,
                  DictSet(pos_table, ln.new, pos + 1))
         ELSE TableLines_SkipsRemoved(lines, k + 1, pos, pos_table)

\* TableLines storing a '-' line's position too, under its old line number.
RECURSIVE TableLines_IndexesRemoved(_, _, _, _)
TableLines_IndexesRemoved(lines, k, pos, pos_table) ==
    IF k > Len(lines) THEN <<pos, pos_table>>
    ELSE LET ln == lines[k] IN
         TableLines_IndexesRemoved(lines, k + 1, pos + 1,
             IF ln.tag \in {"+", " "} /\ ln.new # None
             THEN DictSet(pos_table, ln.new, pos + 1)
             ELSE IF ln.tag = "-" /\ ln.old # None
                  THEN DictSet(pos_table, ln.old, pos + 1)
                  ELSE pos_table)

\* The inner loop of build_position_table: <<pos, pos_table>> after the lines.
RECURSIVE TableLines(_, _, _, _)
TableLines(lines, k, pos, pos_table) ==
    IF k > Len(lines) THEN <<pos, pos_table>>
    ELSE LET ln == lines[k] IN
         TableLines(lines, k + 1, pos + 1,
             IF ln.tag \in {"+", " "} /\ ln.new # None
             THEN DictSet(pos_table, ln.new, pos + 1)
             ELSE pos_table)

\* TableHunks giving each parsed hunk's header line a position of its own.
RECURSIVE TableHunks_CountsHeaders(_, _, _, _)
TableHunks_CountsHeaders(chunks, k, pos, pos_table) ==
    IF k > Len(chunks) THEN pos_table
    ELSE LET parsed == parse_diff_hunk(chunks[k]) IN
         IF parsed = NoneHunk
         THEN TableHunks_CountsHeaders(chunks, k + 1, pos, pos_table)
         ELSE LET r == TableLines(parsed.lines, 1, pos + 1, pos_table)
              IN  TableHunks_CountsHeaders(chunks, k + 1, r[1], r[2])

RECURSIVE TableHunks(_, _, _, _)
TableHunks(chunks, k, pos, pos_table) ==
    IF k > Len(chunks) THEN pos_table
    ELSE LET parsed == parse_diff_hunk(chunks[k]) IN
         IF parsed = NoneHunk
         THEN TableHunks(chunks, k + 1, pos, pos_table)
         ELSE LET r == TableLines(parsed.lines, 1, pos, pos_table)
              IN  TableHunks(chunks, k + 1, r[1], r[2])

build_position_table(patch) ==
    IF patch = <<>> THEN EmptyDict
    ELSE TableHunks(split_hunks(patch), 1, 0, EmptyDict)

\* hunks = [parse_diff_hunk(h) for h in split_hunks(patch or "") if h]
RECURSIVE ParseChunks(_, _)
ParseChunks(chunks, k) ==
    IF k > Len(chunks) THEN <<>>
    ELSE IF IsEmptyText(chunks[k]) THEN ParseChunks(chunks, k + 1)
         ELSE <<parse_diff_hunk(chunks[k])>> \o ParseChunks(chunks, k + 1)

\* The record extract_pr_diffs appends for one file, as json.loads reads it back.
DiffRecord(f) ==
    [path           |-> f.filename,
     patch          |-> f.patch,
     hunks          |-> ParseChunks(split_hunks(f.patch), 1),
     position_table |-> JsonDict(build_position_table(f.patch))]

(***************************************************************************)
(* common.py                                                               *)
(***************************************************************************)
\* file_position_table.get(str(new_no)) or file_position_table.get(new_no)
TableLookup(file_position_table, new_no) ==
    LET a == DictGetStr(file_position_table, Str(new_no))
    IN  IF a # None /\ a # 0 THEN a ELSE DictGetInt(file_position_table, new_no)

\* One of the two scans: the first line of the tag whose lookup is an int.
RECURSIVE FirstPositionOf(_, _, _, _)
FirstPositionOf(lines, k, tag, file_position_table) ==
    IF k > Len(lines) THEN None
    ELSE LET ln  == lines[k]
             pos == IF ln.tag = tag /\ ln.new # None
                    THEN TableLookup(file_position_table, ln.new)
                    ELSE None
         IN  IF pos # None THEN pos
             ELSE FirstPositionOf(lines, k + 1, tag, file_position_table)

\* choose_position_for_hunk with its two scans in the other order.
choose_position_for_hunk_ContextFirst(hunk, file_position_table) ==
    LET ctx == FirstPositionOf(hunk.lines, 1, " ", file_position_table)
    IN  IF ctx # None THEN ctx
        ELSE FirstPositionOf(hunk.lines, 1, "+", file_position_table)

choose_position_for_hunk(hunk, file_position_table) ==
    LET plus == FirstPositionOf(hunk.lines, 1, "+", file_position_table)
    IN  IF plus # None THEN plus
        ELSE FirstPositionOf(hunk.lines, 1, " ", file_position_table)

(***************************************************************************)
(* poster.py                                                               *)
(***************************************************************************)
\* FileSpans with start_pos = pos instead of pos + 1: a span then begins on
\* the last position of the span before it.
RECURSIVE FileSpans_StartOffByOne(_, _, _, _)
FileSpans_StartOffByOne(hunks, k, pos, file_spans) ==
    IF k > Len(hunks) THEN [crashed |-> FALSE, spans |-> file_spans]
    ELSE LET h == hunks[k] IN
         IF h = NoneHunk THEN [crashed |-> TRUE, spans |-> file_spans]
         ELSE IF h.lines = <<>> THEN FileSpans_StartOffByOne(hunks, k + 1, pos, file_spans)
         ELSE FileSpans_StartOffByOne(hunks, k + 1, pos + Len(h.lines),
                  Append(file_spans,
                      [start_pos |-> pos,
                       end_pos   |-> pos + Len(h.lines),
                       new_start |-> h.new_start,
                       new_len   |-> h.new_len,
                       old_start |-> h.old_start,
                       old_len   |-> h.old_len]))

\* FileSpans copying the old bounds into the new fields and the new bounds
\* into the old fields.
RECURSIVE FileSpans_SwapsSides(_, _, _, _)
FileSpans_SwapsSides(hunks, k, pos, file_spans) ==
    IF k > Len(hunks) THEN [crashed |-> FALSE, spans |-> file_spans]
    ELSE LET h == hunks[k] IN
         IF h = NoneHunk THEN [crashed |-> TRUE, spans |-> file_spans]
         ELSE IF h.lines = <<>> THEN FileSpans_SwapsSides(hunks, k + 1, pos, file_spans)
         ELSE FileSpans_SwapsSides(hunks, k + 1, pos + Len(h.lines),
                  Append(file_spans,
                      [start_pos |-> pos + 1,
                       end_pos   |-> pos + Len(h.lines),
                       new_start |-> h.old_start,
                       new_len   |-> h.old_len,
                       old_start |-> h.new_start,
                       old_len   |-> h.new_len]))

\* FileSpans recording a span for a hunk with no body line as well.
RECURSIVE FileSpans_KeepsEmpty(_, _, _, _)
FileSpans_KeepsEmpty(hunks, k, pos, file_spans) ==
    IF k > Len(hunks) THEN [crashed |-> FALSE, spans |-> file_spans]
    ELSE LET h == hunks[k] IN
         IF h = NoneHunk THEN [crashed |-> TRUE, spans |-> file_spans]
         ELSE FileSpans_KeepsEmpty(hunks, k + 1, pos + Len(h.lines),
                  Append(file_spans,
                      [start_pos |-> pos + 1,
                       end_pos   |-> pos + Len(h.lines),
                       new_start |-> h.new_start,
                       new_len   |-> h.new_len,
                       old_start |-> h.old_start,
                       old_len   |-> h.old_len]))

\* The inner loop of _load_hunk_spans over one record's hunks.  h.get on a
\* null hunk raises AttributeError, which nothing catches: crashed.
RECURSIVE FileSpans(_, _, _, _)
FileSpans(hunks, k, pos, file_spans) ==
    IF k > Len(hunks) THEN [crashed |-> FALSE, spans |-> file_spans]
    ELSE LET h == hunks[k] IN
         IF h = NoneHunk THEN [crashed |-> TRUE, spans |-> file_spans]
         ELSE IF h.lines = <<>> THEN FileSpans(hunks, k + 1, pos, file_spans)
         ELSE FileSpans(hunks, k + 1, pos + Len(h.lines),
                  Append(file_spans,
                      [start_pos |-> pos + 1,
                       end_pos   |-> pos + Len(h.lines),
                       new_start |-> h.new_start,
                       new_len   |-> h.new_len,
                       old_start |-> h.old_start,
                       old_len   |-> h.old_len]))

\* LoadRecords without the two guards that keep a record with no hunks, or
\* with no span, out of the dict.
RECURSIVE LoadRecords_KeepsEmpty(_, _, _)
LoadRecords_KeepsEmpty(recs, k, spans) ==
    IF k > Len(recs) THEN [crashed |-> FALSE, spans |-> spans]
    ELSE LET rec == recs[k] IN
         IF rec.path = ""
         THEN LoadRecords_KeepsEmpty(recs, k + 1, spans)
         ELSE LET fs == FileSpans(rec.hunks, 1, 0, <<>>) IN
              IF fs.crashed THEN [crashed |-> TRUE, spans |-> spans]
              ELSE LoadRecords_KeepsEmpty(recs, k + 1,
                       [p \in (DOMAIN spans) \cup {rec.path} |->
                           IF p = rec.path THEN fs.spans ELSE spans[p]])

\* spans is the dict { path: [span, ...] }, a function on the paths it holds.
RECURSIVE LoadRecords(_, _, _)
LoadRecords(recs, k, spans) ==
    IF k > Len(recs) THEN [crashed |-> FALSE, spans |-> spans]
    ELSE LET rec == recs[k] IN
         IF rec.path = "" \/ rec.hunks = <<>>
         THEN LoadRecords(recs, k + 1, spans)
         ELSE LET fs == FileSpans(rec.hunks, 1, 0, <<>>) IN
              IF fs.crashed THEN [crashed |-> TRUE, spans |-> spans]
              ELSE IF fs.spans = <<>> THEN LoadRecords(recs, k + 1, spans)
              ELSE LoadRecords(recs, k + 1,
                       [p \in (DOMAIN spans) \cup {rec.path} |->
                           IF p = rec.path THEN fs.spans ELSE spans[p]])

_load_hunk_spans(diff_jsonl) == LoadRecords(diff_jsonl, 1, [p \in {} |-> <<>>])

\* _span_from_row_basic trying the old side before the new side.
_span_from_row_basic_OldFirst(row) ==
    IF row.file_path = "" THEN NoneSpan
    ELSE IF row.old_start # None /\ row.old_len # None /\ row.old_len # 0 /\ row.old_len > 0
    THEN [path       |-> row.file_path,
          start_line |-> row.old_start,
          end_line   |-> row.old_start + row.old_len - 1,
          side       |-> "LEFT"]
    ELSE IF row.new_start # None /\ row.new_len # None /\ row.new_len # 0 /\ row.new_len > 0
    THEN [path       |-> row.file_path,
          start_line |-> row.new_start,
          end_line   |-> row.new_start + row.new_len - 1,
          side       |-> "RIGHT"]
    ELSE NoneSpan

_span_from_row_basic(row) ==
    IF row.file_path = "" THEN NoneSpan
    ELSE IF row.new_start # None /\ row.new_len # None /\ row.new_len # 0 /\ row.new_len > 0
    THEN [path       |-> row.file_path,
          start_line |-> row.new_start,
          end_line   |-> row.new_start + row.new_len - 1,
          side       |-> "RIGHT"]
    ELSE IF row.old_start # None /\ row.old_len # None /\ row.old_len # 0 /\ row.old_len > 0
    THEN [path       |-> row.file_path,
          start_line |-> row.old_start,
          end_line   |-> row.old_start + row.old_len - 1,
          side       |-> "LEFT"]
    ELSE NoneSpan

\* The body of the scan once hs is the first span holding chosen_position.
SpanOfHunkSpan(path, hs) ==
    IF hs.new_start # None /\ hs.new_len # None /\ hs.new_len > 0
    THEN [path       |-> path,
          start_line |-> hs.new_start,
          end_line   |-> hs.new_start + hs.new_len - 1,
          side       |-> "RIGHT"]
    ELSE IF hs.old_start # None /\ hs.old_len # None /\ hs.old_len > 0
    THEN [path       |-> path,
          start_line |-> hs.old_start,
          end_line   |-> hs.old_start + hs.old_len - 1,
          side       |-> "LEFT"]
    ELSE NoneSpan

_span_from_position(path, chosen_position, spans) ==
    IF chosen_position = None THEN NoneSpan
    ELSE LET file_spans == IF path \in DOMAIN spans THEN spans[path] ELSE <<>>
             hits == {k \in 1..Len(file_spans) :
                         /\ file_spans[k].start_pos <= chosen_position
                         /\ chosen_position <= file_spans[k].end_pos}
         IN  IF hits = {} THEN NoneSpan
             ELSE SpanOfHunkSpan(path, file_spans[CHOOSE k \in hits : \A j \in hits : k <= j])

\* comment_item of _post_hunk_review: a one-line span carries no start_line.
comment_item(span, body) ==
    [path       |-> span.path,
     start_line |-> IF span.start_line = span.end_line THEN None ELSE span.start_line,
     line       |-> span.end_line,
     side       |-> span.side,
     body       |-> body]

\* ResolveRow consulting chosen_position before the row's own bounds.
ResolveRow_PositionFirst(r, spans) ==
    LET span == _span_from_position(r.file_path, r.chosen_position, spans)
    IN  IF span # NoneSpan THEN span ELSE _span_from_row_basic(r)

\* The span the loop body of post_from_reviews ends with for row r.
ResolveRow(r, spans) ==
    LET span == _span_from_row_basic(r)
    IN  IF span # NoneSpan THEN span
        ELSE _span_from_position(r.file_path, r.chosen_position, spans)

\* The three filters before resolution: parse_fail, empty body, no path.
RowFiltered(r) == r.parse_fail \/ r.generated_comment = "" \/ r.file_path = ""

(***************************************************************************)
(* Inputs: the patches the hosting API returns for the files of a pull     *)
(* request, and the rows the reviews file already holds (append_jsonl      *)
(* appends to it; rows may carry direct hunk bounds).                      *)
(***************************************************************************)
Hdr(a, b, c, d) == <<"@@", "-", a, ",", b, "+", c, ",", d, "@@">>
HdrNoLen(a, c)  == <<"@@", "-", a, "+", c, "@@">>
BadHdr          == <<"@@", "-", "x", "+", "1", "@@">>

PBoundary    == << Hdr("1", "2", "1", "3"),
                   <<" ", "c">>, <<"-", "r">>, <<"+", "a">>, <<"+", "b">> >>
PSkip        == << Hdr("1", "1", "1", "1"), <<"-", "x">>, <<"+", "y">>,
                   BadHdr, <<"+", "z">>,
                   Hdr("5", "1", "5", "2"), <<" ", "c">>, <<"+", "d">> >>
PNoMarkers   == << <<"B", "i", "n">> >>
PEmpty       == <<>>
PBlank       == << <<>> >>
PPureDel     == << Hdr("1", "1", "1", "2"), <<" ", "c">>, <<"+", "n">>,
                   Hdr("3", "2", "4", "0"), <<"-", "a">>, <<"-", "b">>,
                   Hdr("7", "1", "6", "1"), <<"-", "p">>, <<"+", "q">> >>
PDelNoEol    == << Hdr("3", "1", "2", "0"), <<"-", "a">>, <<"\\", "N">> >>
PDelBlank    == << Hdr("3", "1", "2", "0"), <<"-", "a">>, <<>>, <<"-", "b">> >>
POverlap     == << Hdr("1", "1", "1", "1"), <<"-", "x">>, <<"+", "a">>,
                   Hdr("5", "0", "1", "2"), <<"+", "b">>, <<"+", "c">> >>
PTwoGood     == << HdrNoLen("1", "1"), <<"-", "a">>, <<"+", "b">>,
                   Hdr("4", "3", "4", "2"), <<" ", "c">>, <<"-", "d">>, <<" ", "e">> >>
PHeaderOnly  == << Hdr("1", "0", "1", "0"),
                   Hdr("2", "0", "2", "0"), <<"+", "a">>,
                   Hdr("3", "0", "4", "1"), <<"+", "b">> >>
PPreamble    == << <<"d", "i", "f", "f">>,
                   Hdr("2", "1", "2", "1") \o <<" ", "f">>, <<"-", "a">>, <<"+", "b">> >>

PMixed       == << Hdr("2", "3", "2", "3"),
                   <<" ", "c">>, <<"+", "a">>, <<"-", "r">>, <<" ", "d">>, <<>>,
                   Hdr("7", "1", "7", "1"), <<"-", "x">>, <<"+", "y">> >>
PHalfLen     == << <<"@@", "-", "3", "+", "3", ",", "2", "@@">>,
                   <<"-", "a">>, <<"+", "b">>, <<"+", "c">>,
                   <<"@@", "-", "6", ",", "0", "+", "7", "@@">>, <<"+", "d">> >>

Patches == {PBoundary, PSkip, PNoMarkers, PEmpty, PBlank, PPureDel, PDelNoEol, PMixed, PHalfLen,
            PDelBlank, POverlap, PTwoGood, PHeaderOnly, PPreamble}
SiblingPatches == {PTwoGood, PNoMarkers}

Row(path, fail, body, pos, ns, nl, os, ol) ==
    [file_path |-> path, hunk_index |-> 0, parse_fail |-> fail,
     generated_comment |-> body, chosen_position |-> pos,
     new_start |-> ns, new_len |-> nl, old_start |-> os, old_len |-> ol]

PriorRows ==
    { Row("a.py", FALSE, "prior", 1, 1, 2, 1, 1),
      Row("a.py", FALSE, "prior", None, 2, 0, 3, 2),
      Row("a.py", FALSE, "prior", 1, 1, 0, 1, 0),
      Row("a.py", FALSE, "prior", 9, None, None, None, None),
      Row("b.py", FALSE, "prior", None, None, None, None, None),
      Row("b.py", FALSE, "prior", 2, None, 2, 1, 1),
      Row("b.py", FALSE, "prior", 2, None, None, None, None),
      Row("c.py", FALSE, "prior", 1, None, None, None, None),
      Row("a.py", TRUE,  "prior", 1, 1, 2, 1, 1),
      Row("a.py", FALSE, "",      1, 1, 2, 1, 1),
      Row("",     FALSE, "prior", 1, 1, 2, 1, 1) }

MaxPriorRows == 1

RECURSIVE SeqsUpTo(_, _)
SeqsUpTo(S, n) ==
    IF n = 0 THEN {<<>>}
    ELSE LET shorter == SeqsUpTo(S, n - 1)
         IN  shorter \cup {Append(q, x) : q \in shorter, x \in S}

\* --max-hunks of runner.py: 0 (the default, no limit) or a limit of one.
MaxHunksArgs == {0, 1}

\* What the model call of one hunk ends in: a usable comment, or no row to
\* post (unparseable output, no valid comment, or an exception in the try).
ModelOutcomes == {"comment", "parse_fail"}

(***************************************************************************)
(* The pipeline of runner.main.                                            *)
(***************************************************************************)
VARIABLES files, max_hunks, diff_file, rev_file, hunk_spans, posted,
          pc, i, h_idx, processed

vars == <<files, max_hunks, diff_file, rev_file, hunk_spans, posted,
          pc, i, h_idx, processed>>

Init ==
    /\ files \in {<< [filename |-> "a.py", patch |-> pa],
                     [filename |-> "b.py", patch |-> pb] >> :
                     pa \in Patches, pb \in SiblingPatches}
    /\ max_hunks \in MaxHunksArgs
    /\ diff_file = <<>>
    /\ rev_file \in SeqsUpTo(PriorRows, MaxPriorRows)
    /\ hunk_spans = [p \in {} |-> <<>>]
    /\ posted = <<>>
    /\ pc = "extract"
    /\ i = 1
    /\ h_idx = 0
    /\ processed = 0

\* extract_pr_diffs: one turn of the loop over the files of the PR.
ExtractFile ==
    /\ pc = "extract"
    /\ i <= Len(files)
    /\ diff_file' = Append(diff_file, DiffRecord(files[i]))
    /\ i' = i + 1
    /\ UNCHANGED <<files, max_hunks, rev_file, hunk_spans, posted, pc, h_idx, processed>>

\* extract_pr_diffs returns and generate_reviews reads the records.
ExtractReturn ==
    /\ pc = "extract"
    /\ i > Len(files)
    /\ pc' = "generate"
    /\ i' = 1
    /\ h_idx' = 0
    /\ processed' = 0
    /\ UNCHANGED <<files, max_hunks, diff_file, rev_file, hunk_spans, posted>>

\* The row generate_reviews appends for hunk h_idx of file_path.
ReviewRow(file_path, idx, outcome, pos) ==
    [file_path |-> file_path, hunk_index |-> idx,
     parse_fail |-> outcome # "comment",
     generated_comment |-> IF outcome = "comment" THEN "comment" ELSE "",
     chosen_position |-> IF outcome = "comment" THEN pos ELSE None,
     new_start |-> None, new_len |-> None, old_start |-> None, old_len |-> None]

\* generate_reviews: one turn of the inner loop over the hunks of record i.
\* build_context(hunk) runs before the try: a null hunk ends the run.
GenHunk(outcome) ==
    /\ pc = "generate"
    /\ i <= Len(diff_file)
    /\ diff_file[i].path # ""
    /\ h_idx < Len(diff_file[i].hunks)
    /\ LET rec  == diff_file[i]
           hunk == rec.hunks[h_idx + 1]
       IN  IF max_hunks # 0 /\ processed >= max_hunks
           THEN /\ i' = i + 1
                /\ h_idx' = 0
                /\ UNCHANGED <<rev_file, pc, processed>>
           ELSE IF hunk = NoneHunk
           THEN /\ pc' = "gen_crashed"
                /\ UNCHANGED <<rev_file, i, h_idx, processed>>
           ELSE /\ rev_file' = Append(rev_file,
                        ReviewRow(rec.path, h_idx, outcome,
                            choose_position_for_hunk(hunk, rec.position_table)))
                /\ processed' = IF outcome = "comment" THEN processed + 1 ELSE processed
                /\ h_idx' = h_idx + 1
                /\ UNCHANGED <<pc, i>>
    /\ UNCHANGED <<files, max_hunks, diff_file, hunk_spans, posted>>

\* generate_reviews: the hunks of record i are exhausted (or it has no path).
GenNextRecord ==
    /\ pc = "generate"
    /\ i <= Len(diff_file)
    /\ (diff_file[i].path = "" \/ h_idx >= Len(diff_file[i].hunks))
    /\ i' = i + 1
    /\ h_idx' = 0
    /\ UNCHANGED <<files, max_hunks, diff_file, rev_file, hunk_spans, posted, pc, processed>>

\* generate_reviews returns; post_from_reviews loads the spans and the rows.
\* An exception in _load_hunk_spans ends post_from_reviews.
PostLoad ==
    /\ pc = "generate"
    /\ i > Len(diff_file)
    /\ LET r == _load_hunk_spans(diff_file)
       IN  IF r.crashed
           THEN /\ pc' = "post_crashed"
                /\ UNCHANGED <<hunk_spans, i>>
           ELSE /\ pc' = "post"
                /\ hunk_spans' = r.spans
                /\ i' = 1
    /\ UNCHANGED <<files, max_hunks, diff_file, rev_file, posted, h_idx, processed>>

\* PostRow with a break where the code has continue: the first row that
\* does not resolve ends the loop.
PostRow_StopsOnFailure ==
    /\ pc = "post"
    /\ i <= Len(rev_file)
    /\ LET r    == rev_file[i]
           span == ResolveRow(r, hunk_spans)
       IN  IF RowFiltered(r) \/ span = NoneSpan
           THEN /\ pc' = "done"
                /\ UNCHANGED <<posted, i>>
           ELSE /\ posted' = Append(posted, comment_item(span, r.generated_comment))
                /\ i' = i + 1
                /\ pc' = pc
    /\ UNCHANGED <<files, max_hunks, diff_file, rev_file, hunk_spans, h_idx, processed>>

\* post_from_reviews: one turn of the loop over the rows.
PostRow ==
    /\ pc = "post"
    /\ i <= Len(rev_file)
    /\ LET r    == rev_file[i]
           span == ResolveRow(r, hunk_spans)
       IN  posted' = IF RowFiltered(r) \/ span = NoneSpan
                     THEN posted
                     ELSE Append(posted, comment_item(span, r.generated_comment))
    /\ i' = i + 1
    /\ UNCHANGED <<files, max_hunks, diff_file, rev_file, hunk_spans, pc, h_idx, processed>>

PostReturn ==
    /\ pc = "post"
    /\ i > Len(rev_file)
    /\ pc' = "done"
    /\ UNCHANGED <<files, max_hunks, diff_file, rev_file, hunk_spans, posted, i, h_idx, processed>>

Next ==
    \/ ExtractFile
    \/ ExtractReturn
    \/ \E outcome \in ModelOutcomes : GenHunk(outcome)
    \/ GenNextRecord
    \/ PostLoad
    \/ PostRow
    \/ PostReturn

Spec == Init /\ [][Next]_vars

(***************************************************************************)
(* Vocabulary of the properties.                                           *)
(***************************************************************************)
Spanned == pc \in {"post", "done"}

\* The rows of the reviews file that this run of generate_reviews wrote
\* with a comment, and the hunk each was written for.
GeneratedAt(j) == rev_file[j].generated_comment = "comment"
RecordOf(path) == diff_file[CHOOSE k \in 1..Len(diff_file) : diff_file[k].path = path]
HunkOfRow(r) == RecordOf(r.file_path).hunks[r.hunk_index + 1]

\* The index in the span table of the file of the span of hunk k.
SpanIndex(hunks, k) == Cardinality({j \in 1..k : hunks[j].lines # <<>>})

\* The span whose position range holds p, NoneSpan when there is none.
MatchedSpan(path, p) ==
    LET fs == IF path \in DOMAIN hunk_spans THEN hunk_spans[path] ELSE <<>>
        hits == {k \in 1..Len(fs) : fs[k].start_pos <= p /\ p <= fs[k].end_pos}
    IN  IF hits = {} THEN NoneSpan ELSE fs[CHOOSE k \in hits : \A j \in hits : k <= j]

SameBounds(hs, h) ==
    /\ hs # NoneSpan
    /\ hs.new_start = h.new_start /\ hs.new_len = h.new_len
    /\ hs.old_start = h.old_start /\ hs.old_len = h.old_len

\* The side-selection rule as the specification words it; a side's bounds
\* are given when its start and its length are both integers.
SideRule(path, ns, nl, os, ol) ==
    IF ns # None /\ nl # None /\ nl > 0
    THEN [path |-> path, start_line |-> ns, end_line |-> ns + nl - 1, side |-> "RIGHT"]
    ELSE IF os # None /\ ol # None /\ ol > 0
    THEN [path |-> path, start_line |-> os, end_line |-> os + ol - 1, side |-> "LEFT"]
    ELSE NoneSpan

(***************************************************************************)
(* C1.  Same-hunk placement: once the spans are loaded, the persisted      *)
(* chosen_position of every row generated for a hunk h lies in the span    *)
(* that carries h's own bounds, so _span_from_position builds the span     *)
(* from h's bounds and from no other hunk's.                               *)
(***************************************************************************)
C1_SameHunkPlacement ==
    Spanned =>
        \A j \in 1..Len(rev_file) :
            (GeneratedAt(j) /\ rev_file[j].chosen_position # None) =>
                LET r == rev_file[j]
                    h == HunkOfRow(r)
                IN  /\ SameBounds(MatchedSpan(r.file_path, r.chosen_position), h)
                    /\ _span_from_position(r.file_path, r.chosen_position, hunk_spans)
                         = SideRule(r.file_path, h.new_start, h.new_len,
                                    h.old_start, h.old_len)

(***************************************************************************)
(* C2.  Skip-and-continue: a patch of three '@@' blocks, two with a        *)
(* well-formed header and one with a malformed one, is persisted with      *)
(* exactly two hunks, the parses of the two well-formed blocks in order.   *)
(***************************************************************************)
GoodBlocks(chunks) ==
    {k \in 1..Len(chunks) : StartsWithAt(chunks[k][1]) /\ HUNK_RE(chunks[k][1]) # <<>>}
BadBlocks(chunks) ==
    {k \in 1..Len(chunks) : StartsWithAt(chunks[k][1]) /\ HUNK_RE(chunks[k][1]) = <<>>}

C2_SkipAndContinue ==
    \A k \in 1..Len(diff_file) :
        LET rec    == diff_file[k]
            chunks == split_hunks(rec.patch)
            good   == GoodBlocks(chunks)
        IN  (Len(chunks) = 3 /\ Cardinality(good) = 2 /\ Cardinality(BadBlocks(chunks)) = 1) =>
                LET g1 == CHOOSE g \in good : \A x \in good : g <= x
                    g2 == CHOOSE g \in good : \A x \in good : x <= g
                IN  rec.hunks = <<parse_diff_hunk(chunks[g1]), parse_diff_hunk(chunks[g2])>>

(***************************************************************************)
(* C3.  No sibling abort: neither the generation loop nor the construction *)
(* of the span table ever ends in an unhandled exception.                  *)
(***************************************************************************)
C3_NoSiblingAbort == pc \notin {"gen_crashed", "post_crashed"}

(***************************************************************************)
(* C4.  Pure-deletion hunks stay postable: the row generated for a hunk    *)
(* made only of Removed lines resolves, at posting time, to the LEFT span  *)
(* old_start .. old_start + old_len - 1.                                   *)
(***************************************************************************)
OnlyRemoved(h) == h.lines # <<>> /\ \A k \in 1..Len(h.lines) : h.lines[k].tag = "-"

C4_PureDeletionPostable ==
    Spanned =>
        \A j \in 1..Len(rev_file) :
            (/\ GeneratedAt(j)
             /\ OnlyRemoved(HunkOfRow(rev_file[j]))
             /\ HunkOfRow(rev_file[j]).new_len = 0
             /\ HunkOfRow(rev_file[j]).old_len > 0) =>
                LET r == rev_file[j]
                    h == HunkOfRow(r)
                IN  ResolveRow(r, hunk_spans) =
                        [path |-> r.file_path, start_line |-> h.old_start,
                         end_line |-> h.old_start + h.old_len - 1, side |-> "LEFT"]

(***************************************************************************)
(* C5.  For every persisted hunk whose header has new_len = 0 and          *)
(* old_len > 0, choose_position_for_hunk returns none, whatever its body.  *)
(***************************************************************************)
C5_PureDeletionPicksNone ==
    \A k \in 1..Len(diff_file) :
        \A n \in 1..Len(diff_file[k].hunks) :
            LET h == diff_file[k].hunks[n]
            IN  (h # NoneHunk /\ h.new_len = 0 /\ h.old_len > 0) =>
                    choose_position_for_hunk(h, diff_file[k].position_table) = None

(***************************************************************************)
(* C6.  Round-trip span consistency: for every hunk with new_len > 0 and   *)
(* every position p inside the span the poster recorded for it,            *)
(* _span_from_position at p and _span_from_row_basic on a row carrying the *)
(* hunk's four bounds and the same path return the same span.              *)
(***************************************************************************)
C6_RoundTripSpan ==
    Spanned =>
        \A k \in 1..Len(diff_file) :
            LET rec == diff_file[k] IN
            rec.path \in DOMAIN hunk_spans =>
                \A n \in 1..Len(rec.hunks) :
                    LET h == rec.hunks[n] IN
                    (h.lines # <<>> /\ h.new_len > 0) =>
                        LET hs == hunk_spans[rec.path][SpanIndex(rec.hunks, n)]
                        IN  \A p \in hs.start_pos..hs.end_pos :
                                _span_from_position(rec.path, p, hunk_spans)
                                  = _span_from_row_basic(
                                        Row(rec.path, FALSE, "", None, h.new_start,
                                            h.new_len, h.old_start, h.old_len))

\* The spans are loaded and the second span of a.py is a new-side hunk of
\* more than one position.
C6_Witness ==
    /\ Spanned
    /\ "a.py" \in DOMAIN hunk_spans
    /\ Len(hunk_spans["a.py"]) >= 2
    /\ hunk_spans["a.py"][2].new_len > 0
    /\ hunk_spans["a.py"][2].end_pos > hunk_spans["a.py"][2].start_pos

(***************************************************************************)
(* C7.  Side selection: on the bounds a row gives directly, and on the     *)
(* bounds of the span a position matches, resolution returns RIGHT on      *)
(* new_start .. new_start + new_len - 1 when new_len > 0, else LEFT on     *)
(* old_start .. old_start + old_len - 1 when old_len > 0, else none.       *)
(***************************************************************************)
C7_SideSelection ==
    /\ \A j \in 1..Len(rev_file) :
           LET r == rev_file[j] IN
           r.file_path # "" =>
               _span_from_row_basic(r)
                 = SideRule(r.file_path, r.new_start, r.new_len, r.old_start, r.old_len)
    /\ \A path \in DOMAIN hunk_spans :
           \A k \in 1..Len(hunk_spans[path]) :
               LET hs == hunk_spans[path][k] IN
               \A p \in hs.start_pos..hs.end_pos :
                   _span_from_position(path, p, hunk_spans)
                     = SideRule(path, hs.new_start, hs.new_len, hs.old_start, hs.old_len)

\* A row resolved RIGHT on its own bounds is in the file while a loaded
\* span with new_len = 0 and old_len > 0 resolves LEFT.
C7_Witness ==
    /\ Spanned
    /\ \E j \in 1..Len(rev_file) :
           /\ rev_file[j].new_len > 0
           /\ _span_from_row_basic(rev_file[j]) # NoneSpan
           /\ _span_from_row_basic(rev_file[j]).side = "RIGHT"
    /\ \E path \in DOMAIN hunk_spans :
           \E k \in 1..Len(hunk_spans[path]) :
               /\ hunk_spans[path][k].new_len = 0
               /\ hunk_spans[path][k].old_len > 0
               /\ _span_from_position(path, hunk_spans[path][k].start_pos, hunk_spans) # NoneSpan
               /\ _span_from_position(path, hunk_spans[path][k].start_pos, hunk_spans).side = "LEFT"

(***************************************************************************)
(* Resolution of a row as the specification words it: the side rule on the *)
(* row's own bounds, else the side rule on the bounds of the span that     *)
(* holds an integer chosen_position, else none.                            *)
(***************************************************************************)
CarriesBounds(r) ==
    r.new_start # None \/ r.new_len # None \/ r.old_start # None \/ r.old_len # None

SpanByPosition(r) ==
    IF r.chosen_position = None THEN NoneSpan
    ELSE LET m == MatchedSpan(r.file_path, r.chosen_position)
         IN  IF m = NoneSpan THEN NoneSpan
             ELSE SideRule(r.file_path, m.new_start, m.new_len, m.old_start, m.old_len)

SpanOfRow(r) ==
    LET direct == SideRule(r.file_path, r.new_start, r.new_len, r.old_start, r.old_len)
    IN  IF direct # NoneSpan THEN direct ELSE SpanByPosition(r)

PostTurn == pc = "post" /\ i <= Len(rev_file) /\ ~RowFiltered(rev_file[i])

(***************************************************************************)
(* C8 as claimed.  A row that carries direct bounds of which neither       *)
(* length is positive is never posted, whatever its chosen_position.       *)
(***************************************************************************)
C8_DirectFailureFinal ==
    [][(/\ PostTurn
        /\ CarriesBounds(rev_file[i])
        /\ ~(rev_file[i].new_len > 0)
        /\ ~(rev_file[i].old_len > 0)) => posted' = posted]_vars

(***************************************************************************)
(* C8 as amended.  Direct bounds take precedence: a row whose own bounds   *)
(* give a span is posted on that span and its chosen_position is not       *)
(* consulted; a row whose own bounds give none, absent or with no positive *)
(* length alike, is posted on the span of the hunk that holds its          *)
(* chosen_position, and is skipped only when that lookup gives none too.   *)
(***************************************************************************)
C8_DirectBoundsFirst ==
    [][PostTurn =>
        LET r      == rev_file[i]
            direct == SideRule(r.file_path, r.new_start, r.new_len, r.old_start, r.old_len)
        IN  IF direct # NoneSpan
            THEN posted' = Append(posted, comment_item(direct, r.generated_comment))
            ELSE IF SpanByPosition(r) # NoneSpan
            THEN posted' = Append(posted, comment_item(SpanByPosition(r), r.generated_comment))
            ELSE posted' = posted]_vars

\* The first row carries bounds with no positive length and a position, and
\* it has been posted.
C8_Witness ==
    /\ Spanned
    /\ i > 1
    /\ CarriesBounds(rev_file[1])
    /\ ~RowFiltered(rev_file[1])
    /\ ~(rev_file[1].new_len > 0)
    /\ ~(rev_file[1].old_len > 0)
    /\ Len(posted) >= 1
    /\ posted[1].body = "prior"

(***************************************************************************)
(* C9.  Partial-failure tolerance of posting: after any number of turns    *)
(* the posts are exactly the comments of the rows handled so far that pass *)
(* the filters and resolve, once each and in row order; a row that does    *)
(* not resolve adds none, and the loop ends only after the last row.       *)
(***************************************************************************)
RECURSIVE PostsOf(_, _)
PostsOf(rows, n) ==
    IF n = 0 THEN <<>>
    ELSE LET r == rows[n] IN
         IF RowFiltered(r) \/ SpanOfRow(r) = NoneSpan
         THEN PostsOf(rows, n - 1)
         ELSE Append(PostsOf(rows, n - 1), comment_item(SpanOfRow(r), r.generated_comment))

C9_PostingTolerant ==
    /\ pc = "post" => (i <= Len(rev_file) + 1 /\ posted = PostsOf(rev_file, i - 1))
    /\ pc = "done" => posted = PostsOf(rev_file, Len(rev_file))

\* The loop is over; a row that did not resolve came before a row that did.
C9_Witness ==
    /\ pc = "done"
    /\ Len(posted) >= 1
    /\ \E j \in 1..Len(rev_file) :
           /\ ~RowFiltered(rev_file[j])
           /\ SpanOfRow(rev_file[j]) = NoneSpan
           /\ \E k \in (j + 1)..Len(rev_file) :
                  ~RowFiltered(rev_file[k]) /\ SpanOfRow(rev_file[k]) # NoneSpan

(***************************************************************************)
(* C10.  A non-empty patch none of whose lines begins with '@@' is         *)
(* persisted with an empty hunks list and an empty position table.         *)
(***************************************************************************)
C10_NoMarkersNoHunks ==
    \A k \in 1..Len(diff_file) :
        LET rec == diff_file[k] IN
        (rec.patch # <<>> /\ \A n \in 1..Len(rec.patch) : ~StartsWithAt(rec.patch[n])) =>
            (rec.hunks = <<>> /\ DOMAIN rec.position_table.map = {})

(***************************************************************************)
(* C11.  Rename-only entry: a file whose patch is empty or absent is       *)
(* persisted with no hunk and an empty position table, no stage raises on  *)
(* its record, and the span table loaded at posting time has no entry for  *)
(* its path.                                                               *)
(***************************************************************************)
C11_RenameOnlyEntry ==
    /\ \A k \in 1..Len(diff_file) :
           LET rec == diff_file[k] IN
           rec.patch = <<>> =>
               /\ rec.hunks = <<>>
               /\ DOMAIN rec.position_table.map = {}
               /\ Spanned => rec.path \notin DOMAIN hunk_spans
    /\ pc = "gen_crashed" => diff_file[i].patch # <<>>

\* The spans are loaded, a.py came with no patch and b.py has its spans.
C11_Witness ==
    /\ Spanned
    /\ diff_file[1].patch = <<>>
    /\ "b.py" \in DOMAIN hunk_spans

(***************************************************************************)
(* C12.  Line-number monotonicity: in every persisted hunk the old numbers *)
(* of the lines that carry one (Removed and Context), in body order, are   *)
(* old_start, old_start + 1, ... and the new numbers of the lines that     *)
(* carry one (Added and Context) are new_start, new_start + 1, ...; an     *)
(* Added line carries no old number and a Removed line no new number.      *)
(***************************************************************************)
CarriesOld(ln) == ln.old # None
CarriesNew(ln) == ln.new # None

C12_LineNumberMonotonicity ==
    \A k \in 1..Len(diff_file) :
        \A n \in 1..Len(diff_file[k].hunks) :
            LET h == diff_file[k].hunks[n] IN
            h # NoneHunk =>
                LET olds == SelectSeq(h.lines, CarriesOld)
                    news == SelectSeq(h.lines, CarriesNew)
                IN  /\ \A x \in 1..Len(olds) : olds[x].old = h.old_start + x - 1
                    /\ \A x \in 1..Len(news) : news[x].new = h.new_start + x - 1
                    /\ \A x \in 1..Len(h.lines) :
                           LET ln == h.lines[x] IN
                           /\ ln.tag \in {"+", "-", " "}
                           /\ CarriesOld(ln) <=> ln.tag \in {"-", " "}
                           /\ CarriesNew(ln) <=> ln.tag \in {"+", " "}

\* A persisted hunk holds an Added line, then a Removed line, then a
\* Context line.
C12_Witness ==
    \E k \in 1..Len(diff_file) :
        \E n \in 1..Len(diff_file[k].hunks) :
            LET h == diff_file[k].hunks[n] IN
            /\ h # NoneHunk
            /\ \E x \in 1..Len(h.lines) :
                   /\ x + 2 <= Len(h.lines)
                   /\ h.lines[x].tag = "+"
                   /\ h.lines[x + 1].tag = "-"
                   /\ h.lines[x + 2].tag = " "

(***************************************************************************)
(* The body lines of the parsed hunks of a file, in hunk order then line   *)
(* order: the k-th of them is the k-th line the running counter meets.     *)
(***************************************************************************)
RECURSIVE FlatLines(_, _)
FlatLines(hunks, k) ==
    IF k > Len(hunks) THEN <<>>
    ELSE IF hunks[k] = NoneHunk THEN FlatLines(hunks, k + 1)
         ELSE hunks[k].lines \o FlatLines(hunks, k + 1)

\* No later body line of the file has the new line number of line p.
LastOfItsNumber(flat, p) ==
    /\ CarriesNew(flat[p])
    /\ \A q \in (p + 1)..Len(flat) : flat[q].new # flat[p].new

(***************************************************************************)
(* C13.  Position coverage: with N body lines in the parsed hunks of a     *)
(* file, the counter of build_position_table gives the k-th body line the  *)
(* position k, for k = 1..N: the table holds k under the new line number   *)
(* of the k-th line (headers take no position), every value of the table   *)
(* lies in 1..N and no two keys share a value.                             *)
(***************************************************************************)
C13_PositionCoverage ==
    \A k \in 1..Len(diff_file) :
        LET flat == FlatLines(diff_file[k].hunks, 1)
            tbl  == diff_file[k].position_table.map
        IN  /\ \A s \in DOMAIN tbl : tbl[s] \in 1..Len(flat)
            /\ \A s, t \in DOMAIN tbl : s # t => tbl[s] # tbl[t]
            /\ \A p \in 1..Len(flat) :
                   LastOfItsNumber(flat, p) =>
                       /\ Str(flat[p].new) \in DOMAIN tbl
                       /\ tbl[Str(flat[p].new)] = p

\* A file of two parsed hunks whose last body line, after a Removed line,
\* holds the last position.
C13_Witness ==
    \E k \in 1..Len(diff_file) :
        LET hunks == diff_file[k].hunks
            flat  == FlatLines(hunks, 1)
            tbl   == diff_file[k].position_table.map
        IN  /\ Len(hunks) = 2
            /\ hunks[1] # NoneHunk /\ hunks[2] # NoneHunk
            /\ Len(flat) >= 4
            /\ \E p \in 1..Len(flat) : flat[p].tag = "-"
            /\ CarriesNew(flat[Len(flat)])
            /\ tbl[Str(flat[Len(flat)].new)] = Len(flat)

(***************************************************************************)
(* C14.  Agreement of the two counters: once the poster has loaded its     *)
(* spans, the position the extractor's table holds for the x-th body line  *)
(* of a hunk is start_pos + x - 1 of the span the poster recorded for that *)
(* hunk, inside [start_pos, end_pos], and the span is as long as the body. *)
(***************************************************************************)
C14_CountersAgree ==
    Spanned =>
        \A k \in 1..Len(diff_file) :
            LET rec  == diff_file[k]
                flat == FlatLines(rec.hunks, 1)
                tbl  == rec.position_table.map
            IN  rec.path \in DOMAIN hunk_spans =>
                    \A n \in 1..Len(rec.hunks) :
                        LET h == rec.hunks[n] IN
                        h.lines # <<>> =>
                            LET hs  == hunk_spans[rec.path][SpanIndex(rec.hunks, n)]
                                off == Len(FlatLines(SubSeq(rec.hunks, 1, n - 1), 1))
                            IN  /\ hs.end_pos - hs.start_pos + 1 = Len(h.lines)
                                /\ \A x \in 1..Len(h.lines) :
                                       LastOfItsNumber(flat, off + x) =>
                                           /\ tbl[Str(h.lines[x].new)] = hs.start_pos + x - 1
                                           /\ hs.start_pos <= tbl[Str(h.lines[x].new)]
                                           /\ tbl[Str(h.lines[x].new)] <= hs.end_pos

\* The spans are loaded and the table of a file holds the end position of
\* the file's second span.
C14_Witness ==
    /\ Spanned
    /\ \E k \in 1..Len(diff_file) :
           LET rec == diff_file[k] IN
           /\ rec.path \in DOMAIN hunk_spans
           /\ Len(hunk_spans[rec.path]) >= 2
           /\ \E s \in DOMAIN rec.position_table.map :
                  rec.position_table.map[s] = hunk_spans[rec.path][2].end_pos

(***************************************************************************)
(* C16.  Boundary scenario: the patch '@@ -1,2 +1,3 @@' with the body      *)
(* ' context', '-removed', '+added1', '+added2' is persisted as one hunk   *)
(* with old_start 1, old_len 2, new_start 1, new_len 3; its position table *)
(* is exactly 1 -> 1, 2 -> 3, 3 -> 4; the representative position is 3,    *)
(* and 3 is what a comment row generated for the hunk carries.             *)
(***************************************************************************)
C16_BoundaryScenario ==
    /\ build_position_table(PBoundary).map = (1 :> 1 @@ 2 :> 3 @@ 3 :> 4)
    /\ \A k \in 1..Len(diff_file) :
           LET rec == diff_file[k] IN
           rec.patch = PBoundary =>
               /\ Len(rec.hunks) = 1
               /\ rec.hunks[1] # NoneHunk
               /\ rec.hunks[1].old_start = 1 /\ rec.hunks[1].old_len = 2
               /\ rec.hunks[1].new_start = 1 /\ rec.hunks[1].new_len = 3
               /\ [x \in 1..4 |-> rec.hunks[1].lines[x].tag] = <<" ", "-", "+", "+">>
               /\ Len(rec.hunks[1].lines) = 4
               /\ rec.position_table.map = ("1" :> 1 @@ "2" :> 3 @@ "3" :> 4)
               /\ choose_position_for_hunk(rec.hunks[1], rec.position_table) = 3
               /\ \A j \in 1..Len(rev_file) :
                      (GeneratedAt(j) /\ rev_file[j].file_path = rec.path) =>
                          rev_file[j].chosen_position = 3

\* A comment row was generated for the hunk of the boundary patch.
C16_Witness ==
    /\ Len(diff_file) >= 1
    /\ diff_file[1].patch = PBoundary
    /\ \E j \in 1..Len(rev_file) :
           /\ GeneratedAt(j)
           /\ rev_file[j].file_path = "a.py"
           /\ rev_file[j].chosen_position = 3

(***************************************************************************)
(* C17 as claimed.  The span table loaded at posting time holds, for every *)
(* file with hunks, exactly one span per hunk, in hunk order, the i-th     *)
(* span carrying the i-th hunk's bounds, a hunk with a header and no body  *)
(* lines included.                                                         *)
(***************************************************************************)
C17_OneSpanPerHunk ==
    Spanned =>
        \A k \in 1..Len(diff_file) :
            LET rec == diff_file[k] IN
            rec.hunks # <<>> =>
                /\ rec.path \in DOMAIN hunk_spans
                /\ Len(hunk_spans[rec.path]) = Len(rec.hunks)
                /\ \A n \in 1..Len(rec.hunks) :
                       SameBounds(hunk_spans[rec.path][n], rec.hunks[n])

(***************************************************************************)
(* C17 as amended.  The span table loaded at posting time holds, for every *)
(* file, exactly one span per hunk that has at least one body line, in     *)
(* hunk order, each carrying its hunk's bounds; a hunk with a header and   *)
(* no body lines has no span, and a file none of whose hunks has a body    *)
(* line has no entry.                                                      *)
(***************************************************************************)
WithBody(hunks) == {n \in 1..Len(hunks) : hunks[n].lines # <<>>}

C17_OneSpanPerBodiedHunk ==
    Spanned =>
        \A k \in 1..Len(diff_file) :
            LET rec    == diff_file[k]
                bodied == WithBody(rec.hunks)
            IN  IF bodied = {}
                THEN rec.path \notin DOMAIN hunk_spans
                ELSE /\ rec.path \in DOMAIN hunk_spans
                     /\ Len(hunk_spans[rec.path]) = Cardinality(bodied)
                     /\ \A n \in bodied :
                            SameBounds(hunk_spans[rec.path][SpanIndex(rec.hunks, n)],
                                       rec.hunks[n])

\* The spans are loaded for a file whose first hunk has no body line: three
\* hunks, two spans, the first span carrying the second hunk's bounds.
C17_Witness ==
    /\ Spanned
    /\ Len(diff_file[1].hunks) = 3
    /\ diff_file[1].hunks[1].lines = <<>>
    /\ "a.py" \in DOMAIN hunk_spans
    /\ Len(hunk_spans["a.py"]) = 2
    /\ SameBounds(hunk_spans["a.py"][1], diff_file[1].hunks[2])

\* The index in a hunk's body of its first line of the tag, 0 if none.
FirstOfTag(lines, tag) ==
    LET S == {x \in 1..Len(lines) : lines[x].tag = tag}
    IN  IF S = {} THEN 0 ELSE CHOOSE x \in S : \A y \in S : x <= y

\* The position build_position_table's counter gave the x-th body line of
\* the n-th hunk of a file.
PositionOfLine(hunks, n, x) == Len(FlatLines(SubSeq(hunks, 1, n - 1), 1)) + x

(***************************************************************************)
(* C18.  Representative-position policy: for every parsed hunk of a        *)
(* persisted record, choose_position_for_hunk on the record's position     *)
(* table returns the position of the hunk's first Added line when it has   *)
(* one, and otherwise the position of its first Context line when it has   *)
(* one; with an Added line present the result is never the position of a   *)
(* Context line.                                                           *)
(***************************************************************************)
C18_RepresentativePosition ==
    \A k \in 1..Len(diff_file) :
        LET rec  == diff_file[k]
            flat == FlatLines(rec.hunks, 1)
        IN  \A n \in 1..Len(rec.hunks) :
                rec.hunks[n] # NoneHunk =>
                    LET lines  == rec.hunks[n].lines
                        chosen == choose_position_for_hunk(rec.hunks[n], rec.position_table)
                        plus   == FirstOfTag(lines, "+")
                        ctx    == FirstOfTag(lines, " ")
                    IN  /\ plus > 0 =>
                            /\ chosen = PositionOfLine(rec.hunks, n, plus)
                            /\ flat[chosen].tag # " "
                        /\ (plus = 0 /\ ctx > 0 /\ lines[ctx].new # None) =>
                            chosen = PositionOfLine(rec.hunks, n, ctx)

(***************************************************************************)
(* C19.  Every block split_hunks produces for a non-empty patch starts at  *)
(* a line beginning with '@@'; the lines before the first '@@' line of the *)
(* patch form no block of their own.                                       *)
(***************************************************************************)
C19_BlocksStartAtHeader ==
    \A k \in 1..Len(diff_file) :
        LET chunks == split_hunks(diff_file[k].patch) IN
        /\ \A c \in 1..Len(chunks) :
               /\ chunks[c] # <<>>
               /\ StartsWithAt(chunks[c][1])
        /\ Len(chunks) =
               Cardinality({x \in 1..Len(diff_file[k].patch) :
                               StartsWithAt(diff_file[k].patch[x])})

(***************************************************************************)
(* C20.  Removed lines consume a position and are unreachable by new-line  *)
(* lookup: every value of a file's position table is the position of an    *)
(* Added or Context line and is stored under that line's new line number;  *)
(* the position of a Removed line is no value of the table; and the line   *)
(* that follows a Removed line holds the position one above it, so the     *)
(* Removed line took a position of its own.                                *)
(***************************************************************************)
C20_RemovedUnreachable ==
    \A k \in 1..Len(diff_file) :
        LET flat == FlatLines(diff_file[k].hunks, 1)
            tbl  == diff_file[k].position_table.map
        IN  /\ \A s \in DOMAIN tbl :
                   /\ tbl[s] \in 1..Len(flat)
                   /\ flat[tbl[s]].tag \in {"+", " "}
                   /\ s = Str(flat[tbl[s]].new)
            /\ \A p \in 1..Len(flat) :
                   flat[p].tag = "-" =>
                       /\ \A s \in DOMAIN tbl : tbl[s] # p
                       /\ (p < Len(flat) /\ LastOfItsNumber(flat, p + 1)) =>
                              tbl[Str(flat[p + 1].new)] = p + 1

\* A persisted file with a Removed line at position 2 between two lines
\* that carry new numbers: the table holds positions 1 and 3 and not 2.
C20_Witness ==
    \E k \in 1..Len(diff_file) :
        LET flat == FlatLines(diff_file[k].hunks, 1)
            tbl  == diff_file[k].position_table.map
        IN  /\ Len(flat) >= 3
            /\ flat[2].tag = "-"
            /\ CarriesNew(flat[1]) /\ CarriesNew(flat[3])
            /\ tbl[Str(flat[1].new)] = 1
            /\ tbl[Str(flat[3].new)] = 3
            /\ \A s \in DOMAIN tbl : tbl[s] # 2

\* The written form of a header: the start and, where written, the length
\* on each side of '@@ -a(,b)? +c(,d)? @@'; "" for a length not written.
HeaderOldStart(t) == t[3]
HeaderOldLen(t)   == IF t[4] = "," THEN t[5] ELSE ""
HeaderNewSide(t)  == IF t[4] = "," THEN 6 ELSE 4
HeaderNewStart(t) == t[HeaderNewSide(t) + 1]
HeaderNewLen(t)   ==
    IF Len(t) > HeaderNewSide(t) + 2 /\ t[HeaderNewSide(t) + 2] = ","
    THEN t[HeaderNewSide(t) + 3] ELSE ""

(***************************************************************************)
(* C21.  Header parsing defaults: every parsed hunk has old_start = a and  *)
(* new_start = c of its header '@@ -a(,b)? +c(,d)? @@', old_len = b where  *)
(* b is written and 1 where it is not, new_len = d where d is written and  *)
(* 1 where it is not; a written length of 0 is kept as 0.                  *)
(***************************************************************************)
C21_HeaderDefaults ==
    \A k \in 1..Len(diff_file) :
        \A n \in 1..Len(diff_file[k].hunks) :
            LET h == diff_file[k].hunks[n] IN
            h # NoneHunk =>
                LET b == HeaderOldLen(h.header)
                    d == HeaderNewLen(h.header)
                IN  /\ h.old_start = ToInt(HeaderOldStart(h.header))
                    /\ h.new_start = ToInt(HeaderNewStart(h.header))
                    /\ h.old_len = (IF b = "" THEN 1 ELSE ToInt(b))
                    /\ h.new_len = (IF d = "" THEN 1 ELSE ToInt(d))
                    /\ b = "0" => h.old_len = 0
                    /\ d = "0" => h.new_len = 0

\* A persisted file whose first header writes no old length and whose
\* second header writes the old length 0 and no new length.
C21_Witness ==
    \E k \in 1..Len(diff_file) :
        LET hunks == diff_file[k].hunks IN
        /\ Len(hunks) = 2
        /\ hunks[1] # NoneHunk /\ hunks[2] # NoneHunk
        /\ HeaderOldLen(hunks[1].header) = "" /\ hunks[1].old_len = 1
        /\ HeaderNewLen(hunks[1].header) = "2" /\ hunks[1].new_len = 2
        /\ HeaderOldLen(hunks[2].header) = "0" /\ hunks[2].old_len = 0
        /\ HeaderNewLen(hunks[2].header) = "" /\ hunks[2].new_len = 1

\* The tag the first character of a non-empty body line selects.
TagOf(raw) == IF raw[1] \in {"+", "-"} THEN raw[1] ELSE " "

(***************************************************************************)
(* C22.  For every body line of every parsed block of a persisted file,    *)
(* the DiffLine has the tag its first character selects ('+' Added, '-'    *)
(* Removed, anything else Context) and its text is the line without that   *)
(* first character; an empty body line is a Context line with empty text.  *)
(***************************************************************************)
C22_TextWithoutMarker ==
    \A k \in 1..Len(diff_file) :
        LET chunks == split_hunks(diff_file[k].patch) IN
        \A c \in 1..Len(chunks) :
            LET h    == parse_diff_hunk(chunks[c])
                body == Tail(splitlines(chunks[c]))
            IN  h # NoneHunk =>
                    /\ \E n \in 1..Len(diff_file[k].hunks) : diff_file[k].hunks[n] = h
                    /\ Len(h.lines) = Len(body)
                    /\ \A x \in 1..Len(body) :
                           IF body[x] = <<>>
                           THEN h.lines[x].tag = " " /\ h.lines[x].text = <<>>
                           ELSE /\ h.lines[x].tag = TagOf(body[x])
                                /\ h.lines[x].text = Tail(body[x])

(***************************************************************************)
(* C23.  The spans loaded for one file partition its positions: every span *)
(* has start_pos <= end_pos, the first starts at 1, each later one starts  *)
(* at the end_pos of the one before plus 1, the last ends at the number of *)
(* body lines of the file, and so no position lies in two spans.           *)
(***************************************************************************)
C23_SpansPartition ==
    Spanned =>
        \A path \in DOMAIN hunk_spans :
            LET spans == hunk_spans[path]
                total == Len(FlatLines(RecordOf(path).hunks, 1))
            IN  /\ spans # <<>>
                /\ \A s \in 1..Len(spans) : spans[s].start_pos <= spans[s].end_pos
                /\ spans[1].start_pos = 1
                /\ \A s \in 2..Len(spans) :
                       spans[s].start_pos = spans[s - 1].end_pos + 1
                /\ spans[Len(spans)].end_pos = total
                /\ \A p \in 0..(total + 1) :
                       Cardinality({s \in 1..Len(spans) :
                           spans[s].start_pos <= p /\ p <= spans[s].end_pos})
                           = (IF p \in 1..total THEN 1 ELSE 0)

\* Spans are loaded for a file with a hunk that has no body line and two
\* hunks that have one: two spans, [1,1] and [2,2].
C23_Witness ==
    /\ Spanned
    /\ "a.py" \in DOMAIN hunk_spans
    /\ \E n \in 1..Len(RecordOf("a.py").hunks) : RecordOf("a.py").hunks[n].lines = <<>>
    /\ Len(hunk_spans["a.py"]) = 2
    /\ hunk_spans["a.py"][1].end_pos = 1
    /\ hunk_spans["a.py"][2].start_pos = 2
    /\ hunk_spans["a.py"][2].end_pos = 2

====
